---- MODULE Spec2Model ----
(***************************************************************************)
(* Model of the sandboxed filesystem access layer of server.py: the path   *)
(* guard (is_safe_path), the directory lister (browse_directory), the      *)
(* content reader with companion parameters (get_file,                     *)
(* parse_k3_parameters) and the bounded recursive search (search_files).   *)
(*                                                                         *)
(* Strings are modelled as sequences of tokens.  A token stands for a run  *)
(* of characters ("PART", "_K1", "nc") or for one character (".", "=").    *)
(* A file name is a sequence of tokens, a path a sequence of names, a text *)
(* a sequence of lines and a line a sequence of tokens.                    *)
(***************************************************************************)
EXTENDS Integers, Sequences, FiniteSets, TLC

\* ------------------------------------------------------------------ bounds
\* Longest client path, in components.
MaxPathLen == 2
\* Number of files of the large directory (search cap is 50).
BulkCount == 52
\* Longest companion line, in tokens, and the number of lines of a text.
MaxLineLen == 3
MaxLines == 2

\* --------------------------------------------------------------- constants
\* The search cap of scan_directory.
MaxResults == 50

\* None of Python (jsonify renders it null).
None == [none |-> TRUE]

\* ------------------------------------------------------------ generic helpers
Last(s) == s[Len(s)]
Front(s) == SubSeq(s, 1, Len(s) - 1)
Range(s) == {s[i] : i \in 1..Len(s)}
SeqsUpTo(S, n) == UNION {[1..k -> S] : k \in 0..n}
IsPrefix(p, s) == Len(p) <= Len(s) /\ SubSeq(s, 1, Len(p)) = p
\* Python's `sub in s`: sub occurs in s as a contiguous run.
Contains(s, sub) ==
    \E i \in 0..(Len(s) - Len(sub)) : SubSeq(s, i + 1, i + Len(sub)) = sub
Reverse(s) == [i \in 1..Len(s) |-> s[Len(s) + 1 - i]]

\* ------------------------------------------------------------------- names
\* str.lower() on one token.
LowerTok(t) ==
    CASE t = "PART" -> "part"
      [] t = "PROG" -> "prog"
      [] t = "JOB" -> "job"
      [] t = "README" -> "readme"
      [] t = "NC" -> "nc"
      [] t = "_K1" -> "_k1"
      [] t = "_K3" -> "_k3"
      [] OTHER -> t
\* str.lower()
Lower(s) == [i \in 1..Len(s) |-> LowerTok(s[i])]

\* os.path.splitext(name)[1]: the text from the last dot on, empty when the
\* name has no dot or only leading dots before it.
SplitExt(name) ==
    LET dots == {i \in 1..Len(name) : name[i] = "."}
    IN  IF dots = {} THEN <<>>
        ELSE LET i == CHOOSE d \in dots : \A e \in dots : e <= d
             IN  IF \A j \in 1..(i - 1) : name[j] = "." THEN <<>>
                 ELSE SubSeq(name, i, Len(name))

ALLOWED_EXTENSIONS ==
    {<<".", "nc">>, <<".", "cnc">>, <<".", "mpf">>, <<".", "spf">>, <<".", "txt">>}

\* file_ext in ALLOWED_EXTENSIONS or file_ext == ''
ExtAllowed(name) ==
    LET file_ext == Lower(SplitExt(name))
    IN  file_ext \in ALLOWED_EXTENSIONS \/ file_ext = <<>>

\* str.replace('_K1', '_K3') on one name.
ReplaceK1(name) == [i \in 1..Len(name) |-> IF name[i] = "_K1" THEN "_K3" ELSE name[i]]

\* The names of the modelled tree.
Dot == <<".">>
DotDot == <<".", ".">>
NHome == <<"home">>
NRoot == <<"E_DRIVE_COPY">>
NSecret == <<"secret", ".", "txt">>
NJob == <<"JOB", "_K1">>
NJob3 == <<"JOB", "_K3">>
NK1 == <<"PART", "_K1", ".", "txt">>
NK3 == <<"PART", "_K3", ".", "txt">>
NLocked == <<"locked">>
NSub == <<"sub">>
NOut == <<"out">>
NProg == <<"PROG", ".", "NC">>
NExe == <<"part", ".", "exe">>
NReadme == <<"README">>
NHidden == <<".", "part">>
NBulk == <<"bulk">>
NMissing == <<"missing">>
Digits == <<"0", "1", "2", "3", "4", "5", "6", "7", "8", "9">>
NPart(i) == <<"part", Digits[(i \div 10) + 1], Digits[(i % 10) + 1], ".", "nc">>

\* CNC_ROOT, as the canonical list of names from the filesystem root.
CNC_ROOT == <<NHome, NRoot>>

\* -------------------------------------------------------------- filesystem
\* The state of the disk the service runs on, as the operating system shows
\* it to os.path and os.scandir: a function from canonical paths (lists of
\* names from "/") to nodes.  A node is a directory with its entries in
\* enumeration order, a regular file with its bytes, or a symbolic link.
Node(kind, target, entries, access, mtime, bytes) ==
    [kind |-> kind, target |-> target, entries |-> entries, access |-> access,
     mtime |-> mtime, ctime |-> mtime + 1, bytes |-> bytes]
Dir(entries, access, mtime) == Node("dir", <<>>, entries, access, mtime, <<>>)
File(bytes, access, mtime) == Node("file", <<>>, <<>>, access, mtime, bytes)
Symlink(target, mtime) == Node("symlink", target, <<>>, "ok", mtime, <<>>)

\* Companion texts: lines of tokens.  "L=" stands for the key text
\* 'RFID_APP_DOORLENGTH[0]=' (and so on), "=" for a lone '=', "0xFF" for a
\* byte that is not valid UTF-8.
TextGood == << <<"x">>, <<"L=", "1", "2">>, <<"FL=", "2">>, <<"W=", "x">> >>
TextOther == << <<"L=", "2">> >>
TextNoKeys == << <<"x", "1">>, <<"=", "1">> >>
TextBinary == << <<"L=", "1">>, <<"0xFF">> >>
TextProgram == << <<"x", "1">>, <<"x", "2">> >>

\* The parameters of a disk: how the listed nodes vary between disks.
Default ==
    [locked |-> "ok", rev |-> FALSE, n |-> 2, k3 |-> "good", job3 |-> FALSE, k1 |-> "ok"]
Configs ==
    {[Default EXCEPT !.locked = v] : v \in {"denied", "oserror"}}
    \cup {[Default EXCEPT !.rev = TRUE]}
    \cup {[Default EXCEPT !.n = v] :
            v \in {0, BulkCount - 11, BulkCount - 10, BulkCount - 9, BulkCount}}
    \cup {[Default EXCEPT !.rev = TRUE, !.n = BulkCount]}
    \cup {[Default EXCEPT !.k3 = v] :
            v \in {"missing", "nokeys", "dir", "denied", "binary", "oserror"}}
    \cup {[Default EXCEPT !.job3 = TRUE]}
    \cup {[Default EXCEPT !.k1 = v] : v \in {"binary", "denied", "oserror"}}
    \cup {[Default EXCEPT !.locked = "denied", !.rev = TRUE, !.n = BulkCount - 10],
          [Default EXCEPT !.locked = "denied", !.n = BulkCount - 9]}
    \cup {Default}

Order(c, s) == IF c.rev THEN Reverse(s) ELSE s

RootEntries(c) ==
    <<NJob>> \o (IF c.job3 THEN <<NJob3>> ELSE <<>>) \o <<NK1>>
    \o (IF c.k3 = "missing" THEN <<>> ELSE <<NK3>>)
    \o <<NLocked, NOut, NProg, NExe, NReadme, NHidden, NBulk>>

K3Node(c) ==
    CASE c.k3 = "good" -> File(TextGood, "ok", 5)
      [] c.k3 = "nokeys" -> File(TextNoKeys, "ok", 5)
      [] c.k3 = "dir" -> Dir(<<>>, "ok", 5)
      [] c.k3 = "denied" -> File(TextGood, "denied", 5)
      [] c.k3 = "oserror" -> File(TextGood, "oserror", 5)
      [] c.k3 = "binary" -> File(TextBinary, "ok", 5)

K1Node(c) ==
    CASE c.k1 = "ok" -> File(TextProgram, "ok", 7)
      [] c.k1 = "binary" -> File(TextBinary, "ok", 7)
      [] c.k1 = "denied" -> File(TextProgram, "denied", 7)
      [] c.k1 = "oserror" -> File(TextProgram, "oserror", 7)

Disk(c) ==
    LET R == CNC_ROOT
        bulk == [i \in 1..c.n |-> NPart(i - 1)]
    IN  (<<>> :> Dir(<<NHome>>, "ok", 1))
        @@ (<<NHome>> :> Dir(Order(c, <<NRoot, NSecret>>), "ok", 1))
        @@ (<<NHome, NSecret>> :> File(TextProgram, "ok", 1))
        @@ (R :> Dir(Order(c, RootEntries(c)), "ok", 9))
        @@ (R \o <<NJob>> :> Dir(Order(c, <<NK1, NK3>>), "ok", 4))
        @@ (R \o <<NJob, NK1>> :> File(TextProgram, "ok", 3))
        @@ (R \o <<NJob, NK3>> :> File(TextGood, "ok", 3))
        @@ (IF c.job3
            THEN (R \o <<NJob3>> :> Dir(<<NK3>>, "ok", 4))
                 @@ (R \o <<NJob3, NK3>> :> File(TextOther, "ok", 2))
            ELSE <<>>)
        @@ (R \o <<NK1>> :> K1Node(c))
        @@ (IF c.k3 = "missing" THEN <<>> ELSE (R \o <<NK3>> :> K3Node(c)))
        @@ (R \o <<NLocked>> :> Dir(Order(c, <<NSub, NPart(97)>>), c.locked, 6))
        @@ (R \o <<NLocked, NSub>> :> Dir(<<NPart(98)>>, "ok", 6))
        @@ (R \o <<NLocked, NPart(97)>> :> File(TextProgram, "ok", 6))
        @@ (R \o <<NLocked, NSub, NPart(98)>> :> File(TextProgram, "ok", 6))
        @@ (R \o <<NOut>> :> Symlink(<<NHome>>, 8))
        @@ (R \o <<NProg>> :> File(TextProgram, "ok", 7))
        @@ (R \o <<NExe>> :> File(TextProgram, "ok", 10))
        @@ (R \o <<NReadme>> :> File(TextProgram, "ok", 2))
        @@ (R \o <<NHidden>> :> File(TextProgram, "ok", 4))
        @@ (R \o <<NBulk>> :> Dir(Order(c, bulk), "ok", 4))
        @@ [p \in {R \o <<NBulk, bulk[i]>> : i \in 1..c.n} |-> File(TextProgram, "ok", 3)]

Disks == {Disk(c) : c \in Configs}

\* --------------------------------------------------------- path resolution
\* A client path: whether it starts with '/', and its components.  The empty
\* string is the relative path without components.
Components == {Dot, DotDot, NHome, NRoot, NSecret, NJob, NK1, NLocked, NOut, NMissing}
RelPaths == [abs : BOOLEAN, segs : SeqsUpTo(Components, MaxPathLen)]
EmptyPath == [abs |-> FALSE, segs |-> <<>>]
\* Truth value of a Python string: false for '' only.
NonEmpty(p) == p.abs \/ p.segs # <<>>

\* os.path.join(base, user) and Path(base) / user: an absolute second part
\* replaces the first.  The result is the list of components from "/".
JoinPath(base, user) == IF user.abs THEN user.segs ELSE base \o user.segs

\* Path.resolve() (os.path.realpath, not strict) on disk d: '.' is dropped,
\* '..' removes the last resolved name, a symbolic link is replaced by its
\* target, a name that does not exist is kept.
RECURSIVE ResolveFrom(_, _, _)
ResolveFrom(d, cur, rest) ==
    IF rest = <<>> THEN cur
    ELSE LET comp == Head(rest)
             next == cur \o <<comp>>
         IN  CASE comp = Dot -> ResolveFrom(d, cur, Tail(rest))
               [] comp = DotDot ->
                    ResolveFrom(d, IF cur = <<>> THEN cur ELSE Front(cur), Tail(rest))
               [] OTHER ->
                    IF next \in DOMAIN d /\ d[next].kind = "symlink"
                    THEN ResolveFrom(d, d[next].target, Tail(rest))
                    ELSE ResolveFrom(d, next, Tail(rest))
Resolve(d, segs) == ResolveFrom(d, <<>>, segs)

\* PurePath.is_relative_to
IsRelativeTo(target, base) == IsPrefix(base, target)

\* The node the operating system reaches for a path given to os.path.exists,
\* os.path.isdir, os.scandir or open: every component but the last must be a
\* directory, links are followed.  found is FALSE when the walk fails.
NotFound == [found |-> FALSE, at |-> <<>>]
RECURSIVE WalkFrom(_, _, _)
WalkFrom(d, cur, rest) ==
    IF cur \notin DOMAIN d THEN NotFound
    ELSE IF rest = <<>> THEN [found |-> TRUE, at |-> cur]
    ELSE IF d[cur].kind # "dir" THEN NotFound
    ELSE LET comp == Head(rest)
             next == cur \o <<comp>>
         IN  CASE comp = Dot -> WalkFrom(d, cur, Tail(rest))
               [] comp = DotDot ->
                    WalkFrom(d, IF cur = <<>> THEN cur ELSE Front(cur), Tail(rest))
               [] OTHER ->
                    IF next \in DOMAIN d /\ d[next].kind = "symlink"
                    THEN WalkFrom(d, d[next].target, Tail(rest))
                    ELSE WalkFrom(d, next, Tail(rest))
Walk(d, segs) == WalkFrom(d, <<>>, segs)

\* os.path.exists, os.path.isdir, os.path.isfile (all follow links).
Exists(d, segs) == Walk(d, segs).found
IsDir(d, segs) == Exists(d, segs) /\ d[Walk(d, segs).at].kind = "dir"
IsFile(d, segs) == Exists(d, segs) /\ d[Walk(d, segs).at].kind = "file"

\* is_safe_path(base_path, user_path)  (is_safe_path_lexical: the faulty
\* variant that compares the joined path without resolving it.)
is_safe_path_lexical(d, base_path, user_path) ==
    IsRelativeTo(JoinPath(base_path, user_path), base_path)
is_safe_path(d, base_path, user_path) ==
    LET base == Resolve(d, base_path)
        target == Resolve(d, JoinPath(base, user_path))
    IN  IsRelativeTo(target, base)

\* ---------------------------------------------------------------- browse
\* A handler's answer: the HTTP status, the JSON body, and the filesystem
\* calls it made on the joined target path, in order.
Answer(status, body, io) == [status |-> status, body |-> body, io |-> io]
Error(msg) == [error |-> msg]

\* items.sort(key=lambda x: x['modified'], reverse=True): stable, so entries
\* with equal keys keep their enumeration order.
RECURSIVE InsertDesc(_, _)
InsertDesc(sorted, item) ==
    IF sorted = <<>> THEN <<item>>
    ELSE IF Head(sorted).modified >= item.modified
         THEN <<Head(sorted)>> \o InsertDesc(Tail(sorted), item)
         ELSE <<item>> \o sorted
\* (SortNone: the faulty variant that leaves the enumeration order.)
SortNone(items) == items
RECURSIVE SortDesc(_)
SortDesc(items) ==
    IF items = <<>> THEN <<>> ELSE InsertDesc(SortDesc(Front(items)), Last(items))

\* del item['modified']
DelModified(items) ==
    [i \in 1..Len(items) |->
        [name |-> items[i].name, type |-> items[i].type, path |-> items[i].path]]

\* The loop over os.scandir(target_path) of browse_directory: entries of
\* directory `at`, from the k-th on.
RECURSIVE BrowseItems(_, _, _, _)
BrowseItems(d, at, relative_path, k) ==
    IF k > Len(d[at].entries) THEN <<>>
    ELSE LET name == d[at].entries[k]
             entry == d[at \o <<name>>]
             relative_item_path ==
                 IF NonEmpty(relative_path)
                 THEN [abs |-> relative_path.abs, segs |-> relative_path.segs \o <<name>>]
                 ELSE [abs |-> FALSE, segs |-> <<name>>]
             item(type) == [name |-> name, type |-> type, path |-> relative_item_path,
                            modified |-> entry.mtime]
             rest == BrowseItems(d, at, relative_path, k + 1)
         IN  IF entry.kind = "dir" THEN <<item("folder")>> \o rest
             ELSE IF entry.kind = "file" /\ ExtAllowed(name) THEN <<item("file")>> \o rest
             ELSE rest

\* str(Path(relative_path).parent): pathlib drops '.' components, the parent
\* of a path without components is the path itself, and the relative path
\* without components is written '.'.
PathParent(relative_path) ==
    LET parts == SelectSeq(relative_path.segs, LAMBDA c : c # Dot)
        up == IF parts = <<>> THEN parts ELSE Front(parts)
    IN  IF ~relative_path.abs /\ up = <<>>
        THEN [abs |-> FALSE, segs |-> <<Dot>>]
        ELSE [abs |-> relative_path.abs, segs |-> up]

\* "Determine parent path" of browse_directory.
ParentPath(relative_path) ==
    IF NonEmpty(relative_path)
    THEN LET parent_path == PathParent(relative_path)
         IN  IF parent_path = [abs |-> FALSE, segs |-> <<Dot>>] THEN EmptyPath
             ELSE parent_path
    ELSE None

\* browse_directory from `items = []` on: the enumeration inside the try,
\* with its two except clauses, and the answer.
ListDirectory(d, relative_path) ==
    LET at == Walk(d, JoinPath(CNC_ROOT, relative_path)).at
        io == <<"exists", "isdir", "scandir">>
    IN  IF d[at].access = "denied"
        THEN Answer(403, Error("Permission denied"), io)
        ELSE IF d[at].access = "oserror"
        THEN Answer(500, Error("Error reading directory"), io)
        ELSE Answer(200,
                    [current_path |-> relative_path,
                     parent_path |-> ParentPath(relative_path),
                     items |-> DelModified(SortDesc(BrowseItems(d, at, relative_path, 1)))],
                    io)

\* browse_directory()  (browse_directory_stat_first: the faulty variant that
\* looks at the target before the security check.)
browse_directory_stat_first(d, relative_path) ==
    LET target_path == JoinPath(CNC_ROOT, relative_path)
    IN  IF ~Exists(d, target_path)
        THEN Answer(404, Error("Path does not exist"), <<"exists">>)
        ELSE IF ~IsDir(d, target_path)
        THEN Answer(400, Error("Not a directory"), <<"exists", "isdir">>)
        ELSE IF ~is_safe_path(d, CNC_ROOT, relative_path)
        THEN Answer(403, Error("Invalid path"), <<"exists", "isdir">>)
        ELSE ListDirectory(d, relative_path)
browse_directory(d, relative_path) ==
    LET target_path == JoinPath(CNC_ROOT, relative_path)
    IN  IF ~is_safe_path(d, CNC_ROOT, relative_path)
        THEN Answer(403, Error("Invalid path"), <<>>)
        ELSE IF ~Exists(d, target_path)
        THEN Answer(404, Error("Path does not exist"), <<"exists">>)
        ELSE IF ~IsDir(d, target_path)
        THEN Answer(400, Error("Not a directory"), <<"exists", "isdir">>)
        ELSE ListDirectory(d, relative_path)

\* ------------------------------------------------------------- parameters
\* The six key texts, 'RFID_APP_DOORLENGTH[0]=' and so on, in the order of
\* the elif chain, each with the field of params it sets.
KeyOrder == <<"L=", "W=", "T=", "A=", "FL=", "FR=">>
KeyField ==
    [k \in Range(KeyOrder) |->
        CASE k = "L=" -> "length"
          [] k = "W=" -> "width"
          [] k = "T=" -> "thickness"
          [] k = "A=" -> "fold_above"
          [] k = "FL=" -> "fold_right"
          [] k = "FR=" -> "fold_left"]
\* The text of a key token before its '='.
KeyName(k) ==
    CASE k = "L=" -> "L" [] k = "W=" -> "W" [] k = "T=" -> "T"
      [] k = "A=" -> "A" [] k = "FL=" -> "FL" [] k = "FR=" -> "FR"
LineTokens == Range(KeyOrder) \cup {"=", "1", "x", " "}

\* str.strip(): leading and trailing blanks removed.
RECURSIVE LStrip(_)
LStrip(s) == IF s # <<>> /\ Head(s) = " " THEN LStrip(Tail(s)) ELSE s
Strip(s) == Reverse(LStrip(Reverse(LStrip(s))))

\* str.split('='): the pieces between the '=' characters.  A key token ends
\* with '=', so it closes a piece after adding its name to it.
RECURSIVE SplitEq(_, _)
SplitEq(line, piece) ==
    IF line = <<>> THEN <<piece>>
    ELSE LET t == Head(line)
         IN  IF t = "=" THEN <<piece>> \o SplitEq(Tail(line), <<>>)
             ELSE IF t \in Range(KeyOrder)
             THEN <<piece \o <<KeyName(t)>>>> \o SplitEq(Tail(line), <<>>)
             ELSE SplitEq(Tail(line), piece \o <<t>>)

\* float(text): blanks around the text are ignored; only digits parse here.
DigitValue(t) == IF t = "1" THEN 1 ELSE 2
IsFloat(text) ==
    LET digits == Strip(text)
    IN  digits # <<>> /\ \A i \in 1..Len(digits) : digits[i] \in {"1", "2"}
RECURSIVE Decimal(_)
Decimal(digits) ==
    IF digits = <<>> THEN 0 ELSE 10 * Decimal(Front(digits)) + DigitValue(Last(digits))
Float(text) == Decimal(Strip(text))

\* The body of the loop of parse_k3_parameters for one line: the first key
\* of the elif chain that occurs in the line decides; its value is the
\* second piece of the line split at '='; a value that does not parse leaves
\* params as it is.
ParseLine(params, rawline) ==
    LET line == Strip(rawline)
        hits == {i \in 1..Len(KeyOrder) : Contains(line, <<KeyOrder[i]>>)}
    IN  IF hits = {} THEN params
        ELSE LET i == CHOOSE h \in hits : \A g \in hits : h <= g
                 value == SplitEq(line, <<>>)[2]
             IN  IF IsFloat(value)
                 THEN (KeyField[KeyOrder[i]] :> Float(value)) @@ params
                 ELSE params

NoParams == [f \in {} |-> 0]
RECURSIVE ParseLines(_, _)
ParseLines(params, lines) ==
    IF lines = <<>> THEN params
    ELSE ParseLines(ParseLine(params, Head(lines)), Tail(lines))

\* return params if params else None
ParseResult(params) == IF DOMAIN params # {} THEN params ELSE None

\* parse_k3_parameters(content)
parse_k3_parameters(content) == ParseResult(ParseLines(NoParams, content))

\* --------------------------------------------------------------- get_file
\* open(..., encoding='utf-8').read() fails on a byte that is not UTF-8;
\* latin-1 decodes every byte.
IsUtf8(bytes) == \A i \in 1..Len(bytes) : ~Contains(bytes[i], <<"0xFF">>)
Latin1(bytes) ==
    [i \in 1..Len(bytes) |->
        [j \in 1..Len(bytes[i]) |-> IF bytes[i][j] = "0xFF" THEN "y" ELSE bytes[i][j]]]
Size(bytes) == Len(bytes)

\* file_path.replace('_K1', '_K3'): on the whole joined path.
ReplaceK1Path(file_path) == [i \in 1..Len(file_path) |-> ReplaceK1(file_path[i])]
\* os.path.basename(file_path)
Basename(file_path) == IF file_path = <<>> THEN <<>> ELSE Last(file_path)

\* The companion step of get_file can fail after os.path.exists(k3_path):
\* open() of a directory or of an unreadable file, or a byte that is not
\* UTF-8, raises inside the inner try.
CompanionFails(d, k3_path) ==
    LET k3 == d[Walk(d, k3_path).at]
    IN  k3.kind # "file" \/ k3.access # "ok" \/ ~IsUtf8(k3.bytes)

\* The companion step of get_file and its return: the result with
\* 'parameters' set, or the result as it was when the step does not apply
\* or fails (except: pass).  (AttachParametersNoCatch: the faulty variant
\* without the inner try, where the failure reaches the outer handlers.)
AttachParametersNoCatch(d, file_path, result) ==
    LET k3_path == ReplaceK1Path(file_path)
        k3 == d[Walk(d, k3_path).at]
        io == <<"exists", "isfile", "open">>
    IN  IF ~Contains(Basename(file_path), <<"_K1">>) THEN Answer(200, result, io)
        ELSE IF ~Exists(d, k3_path) THEN Answer(200, result, io)
        ELSE IF k3.kind = "file" /\ k3.access = "denied"
        THEN Answer(403, Error("Permission denied"), io)
        ELSE IF k3.kind # "file" \/ k3.access # "ok" \/ ~IsUtf8(k3.bytes)
        THEN Answer(500, Error("Error reading file"), io)
        ELSE Answer(200,
                    [k \in DOMAIN result \cup {"parameters"} |->
                        IF k = "parameters" THEN parse_k3_parameters(k3.bytes)
                        ELSE result[k]],
                    io)
AttachParameters(d, file_path, result) ==
    LET k3_path == ReplaceK1Path(file_path)
        k3 == d[Walk(d, k3_path).at]
        io == <<"exists", "isfile", "open">>
    IN  IF ~Contains(Basename(file_path), <<"_K1">>) THEN Answer(200, result, io)
        ELSE IF ~Exists(d, k3_path) THEN Answer(200, result, io)
        ELSE IF CompanionFails(d, k3_path) THEN Answer(200, result, io)
        ELSE Answer(200,
                    [k \in DOMAIN result \cup {"parameters"} |->
                        IF k = "parameters" THEN parse_k3_parameters(k3.bytes)
                        ELSE result[k]],
                    io)

\* get_file()
get_file(d, relative_path) ==
    LET file_path == JoinPath(CNC_ROOT, relative_path)
        f == d[Walk(d, file_path).at]
        content == IF IsUtf8(f.bytes) THEN f.bytes ELSE Latin1(f.bytes)
        result == [content |-> content, size |-> Size(f.bytes),
                   modified |-> f.mtime, created |-> f.ctime]
    IN  IF ~is_safe_path(d, CNC_ROOT, relative_path)
        THEN Answer(403, Error("Invalid path"), <<>>)
        ELSE IF ~Exists(d, file_path)
        THEN Answer(404, Error("File does not exist"), <<"exists">>)
        ELSE IF ~IsFile(d, file_path)
        THEN Answer(400, Error("Not a file"), <<"exists", "isfile">>)
        ELSE IF f.access = "denied"
        THEN Answer(403, Error("Permission denied"), <<"exists", "isfile", "open">>)
        ELSE IF f.access = "oserror"
        THEN Answer(500, Error("Error reading file"), <<"exists", "isfile", "open">>)
        ELSE AttachParameters(d, file_path, result)

\* ----------------------------------------------------------------- search
Queries == {<<>>, <<"part">>, <<"PART">>, <<"_K1">>, <<".", "nc">>, <<"job">>, <<"zz">>}

\* os.path.relpath(path, start) for canonical paths.
RECURSIVE CommonLen(_, _)
CommonLen(a, b) ==
    IF a = <<>> \/ b = <<>> \/ Head(a) # Head(b) THEN 0
    ELSE 1 + CommonLen(Tail(a), Tail(b))
RelPath(path, start) ==
    LET i == CommonLen(path, start)
        ups == [k \in 1..(Len(start) - i) |-> DotDot]
        rel == ups \o SubSeq(path, i + 1, Len(path))
    IN  IF rel = <<>> THEN <<Dot>> ELSE rel
\* os.path.dirname(relative_path)
DirName(segs) == IF segs = <<>> THEN segs ELSE Front(segs)

\* results.append({...}) of scan_directory for the entry `name` of `path`.
Hit(path, name, base_path) ==
    LET relative_path == RelPath(path \o <<name>>, base_path)
    IN  [name |-> name,
         path |-> [abs |-> FALSE, segs |-> relative_path],
         folder |-> [abs |-> FALSE, segs |-> DirName(relative_path)]]

\* The test of scan_directory on a regular file.
Qualifies(q, name) == Contains(Lower(name), q) /\ ExtAllowed(name)

\* if len(results) >= 50  (CapReachedLate: the faulty test `> 50`)
CapReachedLate(res) == Len(res) > MaxResults
CapReached(res) == Len(res) >= MaxResults

\* What os.scandir(path) inside the try of scan_directory leads to: the
\* loop ("open"), except PermissionError: pass ("skip"), or an error that
\* leaves scan_directory ("raise").  (ScanOutcomeNoCatch: the faulty variant
\* without the inner except.)
ScanOutcomeNoCatch(d, path) ==
    IF path \notin DOMAIN d \/ d[path].access # "ok" THEN "raise" ELSE "open"
ScanOutcome(d, path) ==
    IF path \notin DOMAIN d \/ d[path].access = "oserror" THEN "raise"
    ELSE IF d[path].access = "denied" THEN "skip"
    ELSE "open"

\* ------------------------------------------------------------------ state
VARIABLES
    disk,       \* the filesystem (read-only for the service)
    pc,         \* "idle", "scanning" (inside search_files) or "done"
    request,    \* the request being served
    response,   \* the answer of the handler, when pc = "done"
    query,      \* search_files: query
    results,    \* search_files: results
    stack,      \* search_files: the frames of scan_directory, innermost first
    opened,     \* search_files: every os.scandir call, with len(results) then
    params,     \* parse_k3_parameters: params
    fed,        \* parse_k3_parameters: number of lines read so far
    carried,    \* the lines read so far that carry a key with a number, by field
    parsed      \* the value parse_k3_parameters returned, once it has

vars == <<disk, pc, request, response, query, results, stack, opened,
          params, fed, carried, parsed>>
fsVars == <<disk, pc, request, response, query, results, stack, opened>>
parseVars == <<params, fed, carried, parsed>>

NoRequest == [op |-> "none"]
NoResponse == [status |-> 0]
NotParsed == [pending |-> TRUE]

Init ==
    /\ disk \in Disks
    /\ pc = "idle"
    /\ request = NoRequest
    /\ response = NoResponse
    /\ query = <<>>
    /\ results = <<>>
    /\ stack = <<>>
    /\ opened = <<>>
    /\ params = NoParams
    /\ fed = 0
    /\ carried = {}
    /\ parsed = NotParsed

SearchIdle == /\ query' = <<>> /\ results' = <<>> /\ stack' = <<>> /\ opened' = <<>>

\* GET /api/browse?path=p
Browse ==
    /\ pc = "idle"
    /\ \E p \in RelPaths :
         /\ request' = [op |-> "browse", path |-> p]
         /\ response' = browse_directory(disk, p)
    /\ pc' = "done"
    /\ UNCHANGED <<disk, query, results, stack, opened>>
    /\ UNCHANGED parseVars

\* GET /api/file?path=p
GetFile ==
    /\ pc = "idle"
    /\ \E p \in RelPaths :
         /\ request' = [op |-> "file", path |-> p]
         /\ response' = get_file(disk, p)
    /\ pc' = "done"
    /\ UNCHANGED <<disk, query, results, stack, opened>>
    /\ UNCHANGED parseVars

\* GET /api/search?q=q, up to the first call of scan_directory.
SearchStart ==
    /\ pc = "idle"
    /\ \E q \in Queries :
         /\ request' = [op |-> "search", q |-> q]
         /\ query' = Lower(q)
         /\ IF Lower(q) = <<>>
            THEN /\ response' = Answer(200, [results |-> <<>>], <<>>)
                 /\ pc' = "done"
                 /\ stack' = <<>>
            ELSE /\ response' = NoResponse
                 /\ pc' = "scanning"
                 /\ stack' = <<[path |-> CNC_ROOT, idx |-> 0]>>
    /\ results' = <<>>
    /\ opened' = <<>>
    /\ UNCHANGED disk
    /\ UNCHANGED parseVars

\* scan_directory(path, base_path) from its entry to os.scandir(path).
ScanEnter ==
    /\ pc = "scanning"
    /\ stack # <<>>
    /\ Head(stack).idx = 0
    /\ LET path == Head(stack).path
       IN  IF CapReached(results)
           THEN \* return
                /\ stack' = Tail(stack)
                /\ UNCHANGED <<pc, response, opened>>
           ELSE /\ opened' = Append(opened, [path |-> path, hits |-> Len(results)])
                /\ IF ScanOutcome(disk, path) = "raise"
                   THEN \* the error leaves every frame: except Exception
                        /\ stack' = <<>>
                        /\ response' = Answer(500, Error("Search error"), <<>>)
                        /\ pc' = "done"
                   ELSE IF ScanOutcome(disk, path) = "skip"
                   THEN \* except PermissionError: pass
                        /\ stack' = Tail(stack)
                        /\ UNCHANGED <<pc, response>>
                   ELSE /\ stack' = <<[path |-> path, idx |-> 1]>> \o Tail(stack)
                        /\ UNCHANGED <<pc, response>>
    /\ UNCHANGED <<disk, request, query, results>>
    /\ UNCHANGED parseVars

\* One turn of the loop over the entries of the innermost directory.
ScanEntry ==
    /\ pc = "scanning"
    /\ stack # <<>>
    /\ Head(stack).idx >= 1
    /\ Head(stack).idx <= Len(disk[Head(stack).path].entries)
    /\ LET path == Head(stack).path
           idx == Head(stack).idx
           name == disk[path].entries[idx]
           entry == disk[path \o <<name>>]
           advanced == <<[path |-> path, idx |-> idx + 1]>> \o Tail(stack)
       IN  IF CapReached(results)
           THEN \* break
                /\ stack' = Tail(stack)
                /\ results' = results
           ELSE IF entry.kind = "file"
           THEN /\ results' = IF Qualifies(query, name)
                              THEN Append(results, Hit(path, name, CNC_ROOT))
                              ELSE results
                /\ stack' = advanced
           ELSE IF entry.kind = "dir"
           THEN /\ stack' = <<[path |-> path \o <<name>>, idx |-> 0]>> \o advanced
                /\ results' = results
           ELSE /\ stack' = advanced
                /\ results' = results
    /\ UNCHANGED <<disk, pc, request, response, query, opened>>
    /\ UNCHANGED parseVars

\* The loop over the entries ends: scan_directory returns.
ScanExit ==
    /\ pc = "scanning"
    /\ stack # <<>>
    /\ Head(stack).idx > Len(disk[Head(stack).path].entries)
    /\ stack' = Tail(stack)
    /\ UNCHANGED <<disk, pc, request, response, query, results, opened>>
    /\ UNCHANGED parseVars

\* return jsonify({'results': results})
SearchReturn ==
    /\ pc = "scanning"
    /\ stack = <<>>
    /\ response' = Answer(200, [results |-> results], <<>>)
    /\ pc' = "done"
    /\ UNCHANGED <<disk, request, query, results, stack, opened>>
    /\ UNCHANGED parseVars

\* The answer is sent; requests share no state.
Respond ==
    /\ pc = "done"
    /\ pc' = "idle"
    /\ request' = NoRequest
    /\ response' = NoResponse
    /\ SearchIdle
    /\ UNCHANGED disk
    /\ UNCHANGED parseVars

Next ==
    \/ Browse
    \/ GetFile
    \/ SearchStart
    \/ ScanEnter
    \/ ScanEntry
    \/ ScanExit
    \/ SearchReturn
    \/ Respond

Spec == Init /\ [][Next]_vars

\* ------------------------------------------------- parse_k3_parameters alone
\* parse_k3_parameters on every text of at most MaxLines lines of at most
\* MaxLineLen tokens.  The text is read line by line, as the loop does; the
\* state keeps what the loop keeps (params) and, of the lines read, those
\* that hold a key followed by a number up to the end of the line.
Lines == SeqsUpTo(LineTokens, MaxLineLen)

\* The line holds key k followed, up to the end of the line, by a number.
CarriesNumber(line, k) ==
    \E i \in 1..Len(line) : line[i] = k /\ IsFloat(SubSeq(line, i + 1, Len(line)))
Carried(line) ==
    {[field |-> KeyField[k], line |-> line] :
        k \in {j \in Range(KeyOrder) : CarriesNumber(line, j)}}

InitParse ==
    /\ disk = <<>>   \* parse_k3_parameters reads no disk
    /\ pc = "idle"
    /\ request = NoRequest
    /\ response = NoResponse
    /\ query = <<>>
    /\ results = <<>>
    /\ stack = <<>>
    /\ opened = <<>>
    /\ params = NoParams
    /\ fed = 0
    /\ carried = {}
    /\ parsed = NotParsed

\* for line in lines: one turn of the loop, on any next line.
FeedLine ==
    /\ parsed = NotParsed
    /\ fed < MaxLines
    /\ \E next \in Lines :
         /\ params' = ParseLine(params, next)
         /\ carried' = carried \cup Carried(next)
    /\ fed' = fed + 1
    /\ UNCHANGED parsed
    /\ UNCHANGED fsVars

\* The text ends: return params if params else None.
ParseReturn ==
    /\ parsed = NotParsed
    /\ parsed' = ParseResult(params)
    /\ UNCHANGED <<params, fed, carried>>
    /\ UNCHANGED fsVars

NextParse ==
    \/ FeedLine
    \/ ParseReturn

SpecParse == InitParse /\ [][NextParse]_vars

\* ================================================================== claims
\* What the claims speak of, stated on the disk and not through the handlers.

\* The canonical form of a client path: Root joined with the path, with
\* '..', absolute overrides and symbolic links resolved.
Canonical(d, p) == Resolve(d, JoinPath(CNC_ROOT, p))
\* The path resolves to Root or to a descendant of Root.
Inside(d, p) == IsPrefix(CNC_ROOT, Canonical(d, p))

\* The allow-list of the specification: .nc .cnc .mpf .spf .txt, or none.
ListedExtensions ==
    {<<".", "nc">>, <<".", "cnc">>, <<".", "mpf">>, <<".", "spf">>, <<".", "txt">>, <<>>}
Listed(name) == Lower(SplitExt(name)) \in ListedExtensions

Served(op) == pc = "done" /\ request.op = op
Succeeded(op) == Served(op) /\ response.status = 200

\* C1: a client path whose canonical form is neither Root nor below Root is
\* refused by is_safe_path, and browse and getFile answer 403 'Invalid path'
\* without content or listing and without any filesystem call (exists,
\* isdir/isfile, scandir, open) on the joined target path.
C1_EscapeRefused ==
    (pc = "done" /\ request.op \in {"browse", "file"} /\ ~Inside(disk, request.path))
    => /\ ~is_safe_path(disk, CNC_ROOT, request.path)
       /\ response.status = 403
       /\ response.body = Error("Invalid path")
       /\ response.io = <<>>
C1_Witness ==
    /\ Served("file")
    /\ request.path = [abs |-> FALSE, segs |-> <<DotDot, NSecret>>]
    /\ response.status = 403

\* C2: every path returned to a caller resolves, joined to Root, to Root or a
\* descendant of Root: browse's current_path, its non-null parent_path and
\* every item path, and every search hit's path and folder.
C2_ReturnedPathsInside ==
    /\ Succeeded("browse") =>
         /\ Inside(disk, response.body.current_path)
         /\ response.body.parent_path # None => Inside(disk, response.body.parent_path)
         /\ \A i \in 1..Len(response.body.items) :
               Inside(disk, response.body.items[i].path)
    /\ Succeeded("search") =>
         \A i \in 1..Len(response.body.results) :
            /\ Inside(disk, response.body.results[i].path)
            /\ Inside(disk, response.body.results[i].folder)

\* C3: at every point of a search the result list holds at most 50 hits, each
\* a regular file whose name contains the query case-insensitively and whose
\* lower-cased extension is listed or empty; once 50 hits are collected no
\* hit is appended and no directory is opened (every scandir call was made
\* with fewer than 50 hits collected).
C3_SearchBounded ==
    request.op = "search" =>
        /\ Len(results) <= 50
        /\ \A i \in 1..Len(results) :
              /\ (CNC_ROOT \o results[i].path.segs) \in DOMAIN disk
              /\ disk[CNC_ROOT \o results[i].path.segs].kind = "file"
              /\ Contains(Lower(results[i].name), Lower(request.q))
              /\ Listed(results[i].name)
        /\ \A j \in 1..Len(opened) : opened[j].hits < 50
        /\ Succeeded("search") => response.body.results = results
C3_Witness ==
    /\ Succeeded("search")
    /\ Len(response.body.results) = 50
    /\ disk[CNC_ROOT \o <<NJob>>].access = "ok"
    /\ \A j \in 1..Len(opened) : opened[j].path # CNC_ROOT \o <<NJob>>

\* C4: for a valid directory, browse's items are exactly the directory's
\* immediate children that are folders or files with a listed or empty
\* extension, each once, ordered by last-modified time non-increasing, and
\* without the sort key.
C4_Listing ==
    Succeeded("browse") =>
        LET at == Walk(disk, JoinPath(CNC_ROOT, request.path)).at
            items == response.body.items
            shown == {n \in Range(disk[at].entries) :
                        \/ disk[at \o <<n>>].kind = "dir"
                        \/ disk[at \o <<n>>].kind = "file" /\ Listed(n)}
        IN  /\ {items[i].name : i \in 1..Len(items)} = shown
            /\ Len(items) = Cardinality(shown)
            /\ \A i \in 1..Len(items) :
                  /\ DOMAIN items[i] = {"name", "type", "path"}
                  /\ items[i].type =
                        IF disk[at \o <<items[i].name>>].kind = "dir" THEN "folder" ELSE "file"
            /\ \A i, j \in 1..Len(items) :
                  i < j => disk[at \o <<items[i].name>>].mtime
                              >= disk[at \o <<items[j].name>>].mtime
C4_Witness ==
    /\ Succeeded("browse")
    /\ request.path = EmptyPath
    /\ \E i, j \in 1..Len(response.body.items) :
          /\ response.body.items[i].type = "folder"
          /\ response.body.items[j].type = "file"
    /\ \A i \in 1..Len(response.body.items) : response.body.items[i].name # NExe

\* C5: parse_k3_parameters returns a set that has a field exactly when some
\* line carries the key mapped to that field with a value that parses as a
\* number, and None when no field was set.
C5_FieldsExactlyCarried ==
    parsed # NotParsed =>
        IF carried = {} THEN parsed = None
        ELSE parsed # None /\ DOMAIN parsed = {c.field : c \in carried}

\* C6: getFile on a readable regular file carries parameters if and only if
\* the base name contains '_K1', the companion named by substituting '_K3' in
\* the file's name, in the same directory, exists, and parsing it recognized
\* at least one value.
HasParameters(body) == "parameters" \in DOMAIN body /\ body.parameters # None
Sibling(file_path) == Front(file_path) \o <<ReplaceK1(Last(file_path))>>
Recognized(d, path) ==
    LET k3 == d[Walk(d, path).at]
    IN  /\ k3.kind = "file" /\ k3.access = "ok" /\ IsUtf8(k3.bytes)
        /\ parse_k3_parameters(k3.bytes) # None
C6_ParametersIff ==
    Succeeded("file") =>
        LET file_path == JoinPath(CNC_ROOT, request.path)
        IN  HasParameters(response.body)
            <=> /\ Contains(Last(file_path), <<"_K1">>)
                /\ Exists(disk, Sibling(file_path))
                /\ Recognized(disk, Sibling(file_path))

\* C7: a failure of the companion step of getFile (companion unreadable, not
\* UTF-8, a directory) leaves the primary read a success with the content,
\* size, modified and created it has without a companion, and no parameters.
PrimaryReadable(d, p) ==
    /\ Inside(d, p)
    /\ IsFile(d, JoinPath(CNC_ROOT, p))
    /\ d[Walk(d, JoinPath(CNC_ROOT, p)).at].access = "ok"
CompanionStepFails(d, p) ==
    LET file_path == JoinPath(CNC_ROOT, p)
    IN  /\ Contains(Last(file_path), <<"_K1">>)
        /\ Exists(d, ReplaceK1Path(file_path))
        /\ CompanionFails(d, ReplaceK1Path(file_path))
C7_CompanionFailureSwallowed ==
    (Served("file") /\ PrimaryReadable(disk, request.path)
        /\ CompanionStepFails(disk, request.path))
    => LET f == disk[Walk(disk, JoinPath(CNC_ROOT, request.path)).at]
       IN  /\ response.status = 200
           /\ response.body =
                 [content |-> IF IsUtf8(f.bytes) THEN f.bytes ELSE Latin1(f.bytes),
                  size |-> Len(f.bytes), modified |-> f.mtime, created |-> f.ctime]
C7_Witness ==
    /\ Succeeded("file")
    /\ request.path = [abs |-> FALSE, segs |-> <<NK1>>]
    /\ CompanionStepFails(disk, request.path)
    /\ disk[CNC_ROOT \o <<NK3>>].access = "denied"

\* C8: browse and getFile yield one outcome, decided in this order: path
\* escapes Root -> 403; target does not exist -> 404; target of the wrong
\* type -> 400; permission denied while enumerating or reading -> 403; any
\* other failure -> 500 with a message; success only otherwise.
Outcome(d, op, p) ==
    LET target == JoinPath(CNC_ROOT, p)
        node == d[Walk(d, target).at]
    IN  IF ~Inside(d, p) THEN 403
        ELSE IF ~Exists(d, target) THEN 404
        ELSE IF node.kind # (IF op = "browse" THEN "dir" ELSE "file") THEN 400
        ELSE IF node.access = "denied" THEN 403
        ELSE IF node.access = "oserror" THEN 500
        ELSE 200
C8_OutcomeOrder ==
    (pc = "done" /\ request.op \in {"browse", "file"})
    => /\ response.status = Outcome(disk, request.op, request.path)
       /\ response.status # 200 => DOMAIN response.body = {"error"}
       /\ response.status = 200 => "error" \notin DOMAIN response.body
C8_Witness ==
    /\ Served("browse")
    /\ request.path = [abs |-> FALSE, segs |-> <<DotDot, NMissing>>]
    /\ response.status = 403

\* C9: for a path browse accepts, parent_path is none exactly when the path
\* denotes Root (the empty string or another spelling such as '.'), and
\* otherwise it is the direct parent of the requested path, the empty string
\* standing for Root.
C9_ParentNoneIffRoot ==
    Succeeded("browse") =>
        LET here == Canonical(disk, request.path)
            parent_path == response.body.parent_path
        IN  /\ parent_path = None <=> here = CNC_ROOT
            /\ here # CNC_ROOT =>
                  /\ parent_path # None
                  /\ Canonical(disk, parent_path) = Front(here)
                  /\ Front(here) = CNC_ROOT => parent_path = EmptyPath

\* C10: the qualifying files of a tree and a query.
UnderRoot(p) == IsPrefix(CNC_ROOT, p) /\ Len(p) > Len(CNC_ROOT)
QualifyingFile(d, q, p) ==
    /\ UnderRoot(p)
    /\ d[p].kind = "file"
    /\ Contains(Lower(Last(p)), Lower(q))
    /\ Listed(Last(p))
Readable(d, p) == p \in DOMAIN d /\ d[p].kind = "dir" /\ d[p].access = "ok"
\* Every directory from Root down to p can be enumerated.
ReadableFromRoot(d, p) ==
    \A k \in Len(CNC_ROOT)..Len(p) : Readable(d, SubSeq(p, 1, k))
\* No enumeration fails with an error other than a permission error.
OnlyPermissionErrors(d) == \A p \in DOMAIN d : d[p].access # "oserror"
ReturnedOnce(hits, d, files) ==
    /\ Len(hits) = Cardinality(files)
    /\ {CNC_ROOT \o hits[i].path.segs : i \in 1..Len(hits)} = files

====
